---------------------------- MODULE Spec2Model ----------------------------
(***************************************************************************)
(* Model of hdfs-log-reader (src/src/main.rs): process_hdfs_logs streams   *)
(* the lines of a newline-delimited JSON file through read_hdfs_logs,      *)
(* accumulates the parsed entries in `batch` and hands every full batch    *)
(* and the final partial batch to insert_hdfs_logs_batch.                  *)
(*                                                                         *)
(* A line of the file is abstracted to the way it decodes (LineKinds); a   *)
(* parsed LogEntry is identified by its 1-based line number (the `i + 1`   *)
(* of read_hdfs_logs), so that order and duplication are observable.       *)
(***************************************************************************)
EXTENDS Integers, Sequences, FiniteSets, TLC

\* ------------------------------------------------------------------ bounds
MaxLines == 5
MaxBatch == 3
MaxRowsCap == 3

\* ------------------------------------------------------- program constants
\* Option<usize>::None of Args.max_rows
None == -1

\* --------------------------------------------------------------- the input
\* How one line of the file decodes:
\*   valid         a JSON object with exactly the four LogEntry fields
\*   extra_field   the four fields plus an unknown one (serde ignores it)
\*   not_json      text serde_json rejects: not JSON, the empty line, or an
\*                 object with a missing or mistyped field
\*   bad_utf8      bytes that BufRead::lines cannot decode (io::Error)
LineKinds == {"valid", "extra_field", "not_json", "bad_utf8"}

Files == UNION {[1..n -> LineKinds] : n \in 0..MaxLines}

BatchSizes == 0..MaxBatch

MaxRowsValues == {None} \cup 0..MaxRowsCap

VARIABLES
    file,            \* the lines of hdfs-logs-multitenants.json
    batch_size,      \* args.batch_size
    max_rows,        \* args.max_rows (None or a number)
    pc,              \* position of process_hdfs_logs
    fail_stage,      \* which `?` returned the error ("none" while running)
    created,         \* create_hdfs_log_table has dropped and recreated the table
    pos,             \* lines pulled from log_iter so far
    batch,           \* the Vec<LogEntry> being accumulated
    total_read,
    total_inserted,
    parse_errors,    \* number of "Error processing log entry" reports (eprintln)
    calls,           \* the batches handed to insert_hdfs_logs_batch, in call order
    results,         \* what each returned call returned: "ok" or "err"
    table            \* rows of the destination table, in insertion order

vars == <<file, batch_size, max_rows, pc, fail_stage, created, pos, batch,
          total_read, total_inserted, parse_errors, calls, results, table>>

\* ---------------------------------------------------------------- helpers
Min(a, b) == IF a < b THEN a ELSE b

\* `line.with_context(..)?` inside the map closure: the io::Result of lines()
LineReadOk(l) == l # "bad_utf8"

\* serde_json::from_str::<LogEntry>: unknown fields are ignored (no
\* deny_unknown_fields on LogEntry), anything else malformed is an error
FromStr(l) == l \in {"valid", "extra_field"}

\* the Result<LogEntry> the iterator yields for line l
LogResult(l) == IF LineReadOk(l) /\ FromStr(l) THEN "Ok" ELSE "Err"

IterLen_nocap(f, mr) == Len(f)

\* number of items log_iter yields: lines().enumerate().take(n) with
\* n = max_rows.unwrap_or(usize::MAX); usize::MAX exceeds the length of any
\* file, so take(usize::MAX) yields every line
IterLen(f, mr) == IF mr = None THEN Len(f) ELSE Min(Len(f), mr)

FlushDue_gt(len, bs) == len > bs

FlushDue_eq(len, bs) == len = bs

\* `if batch.len() >= args.batch_size`
FlushDue(len, bs) == len >= bs

Push_front(b, e) == <<e>> \o b

\* batch.push(log)
Push(b, e) == Append(b, e)

Clear_keep(b) == b

\* batch.clear()
Clear(b) == <<>>

IsEmpty_never(b) == FALSE

\* batch.is_empty()
IsEmpty(b) == b = <<>>

Counted_one(total, b) == total + 1

\* total_inserted += batch.len()
Counted(total, b) == total + Len(b)

\* ------------------------------------------------------------------- Init
Init ==
    /\ file \in Files
    /\ batch_size \in BatchSizes
    /\ max_rows \in MaxRowsValues
    /\ pc = "idle"
    /\ fail_stage = "none"
    /\ created = FALSE
    /\ pos = 0
    /\ batch = <<>>
    /\ total_read = 0
    /\ total_inserted = 0
    /\ parse_errors = 0
    /\ calls = <<>>
    /\ results = <<>>
    /\ table = <<>>

\* ---------------------------------------------------------------- actions
Fail(stage) ==
    /\ pc' = "failed"
    /\ fail_stage' = stage

\* connect_to_database(..).await? succeeds
ConnectOk ==
    /\ pc = "idle"
    /\ pc' = "connected"
    /\ UNCHANGED <<file, batch_size, max_rows, fail_stage, created, pos, batch,
                   total_read, total_inserted, parse_errors, calls, results, table>>

\* pool.get_conn() fails: "Error connecting to the database"
ConnectErr ==
    /\ pc = "idle"
    /\ Fail("connect")
    /\ UNCHANGED <<file, batch_size, max_rows, created, pos, batch,
                   total_read, total_inserted, parse_errors, calls, results, table>>

\* create_hdfs_log_table: DROP TABLE IF EXISTS, then CREATE TABLE
CreateTableOk ==
    /\ pc = "connected"
    /\ pc' = "table_ready"
    /\ created' = TRUE
    /\ table' = <<>>
    /\ UNCHANGED <<file, batch_size, max_rows, fail_stage, pos, batch,
                   total_read, total_inserted, parse_errors, calls, results>>

CreateTableErr_ignored ==
    /\ pc = "connected"
    /\ pc' = "table_ready"
    /\ UNCHANGED <<file, batch_size, max_rows, fail_stage, created, pos, batch,
                   total_read, total_inserted, parse_errors, calls, results, table>>

\* either exec_drop fails: "Error dropping table" / "Error creating table"
CreateTableErr ==
    /\ pc = "connected"
    /\ \E stage \in {"drop_table", "create_table"} : Fail(stage)
    /\ UNCHANGED <<file, batch_size, max_rows, created, pos, batch,
                   total_read, total_inserted, parse_errors, calls, results, table>>

\* read_hdfs_logs(..)? succeeds; batch, total_inserted, total_read initialised
OpenFileOk ==
    /\ pc = "table_ready"
    /\ pc' = "reading"
    /\ batch' = <<>>
    /\ total_inserted' = 0
    /\ total_read' = 0
    /\ UNCHANGED <<file, batch_size, max_rows, fail_stage, created, pos,
                   parse_errors, calls, results, table>>

\* File::open fails ("Error opening file ..") or the path is not UTF-8
OpenFileErr ==
    /\ pc = "table_ready"
    /\ Fail("open_file")
    /\ UNCHANGED <<file, batch_size, max_rows, created, pos, batch,
                   total_read, total_inserted, parse_errors, calls, results, table>>

NextLine_ahead ==
    /\ pc \in {"reading", "flushing"}
    /\ pos < IterLen(file, max_rows)
    /\ pos' = pos + 1
    /\ IF LogResult(file[pos + 1]) = "Ok"
         THEN /\ batch' = Push(batch, pos + 1)
              /\ total_read' = total_read + 1
              /\ IF FlushDue(Len(batch'), batch_size)
                   THEN /\ pc' = "flushing"
                        /\ calls' = Append(calls, batch')
                   ELSE UNCHANGED <<pc, calls>>
              /\ UNCHANGED parse_errors
         ELSE /\ parse_errors' = parse_errors + 1
              /\ UNCHANGED <<pc, batch, total_read, calls>>
    /\ UNCHANGED <<file, batch_size, max_rows, fail_stage, created,
                   total_inserted, results, table>>

\* one iteration of `for log_result in log_iter`, up to the await of the insert
NextLine ==
    /\ pc = "reading"
    /\ pos < IterLen(file, max_rows)
    /\ pos' = pos + 1
    /\ IF LogResult(file[pos + 1]) = "Ok"
         THEN /\ batch' = Push(batch, pos + 1)
              /\ total_read' = total_read + 1
              /\ IF FlushDue(Len(batch'), batch_size)
                   THEN /\ pc' = "flushing"
                        /\ calls' = Append(calls, batch')
                   ELSE UNCHANGED <<pc, calls>>
              /\ UNCHANGED parse_errors
         ELSE /\ parse_errors' = parse_errors + 1
              /\ UNCHANGED <<pc, batch, total_read, calls>>
    /\ UNCHANGED <<file, batch_size, max_rows, fail_stage, created,
                   total_inserted, results, table>>

\* log_iter is exhausted: "Process remaining batch", or return Ok(())
EndOfInput ==
    /\ pc = "reading"
    /\ pos >= IterLen(file, max_rows)
    /\ IF ~IsEmpty(batch)
         THEN /\ pc' = "final_flushing"
              /\ calls' = Append(calls, batch)
         ELSE /\ pc' = "done"
              /\ UNCHANGED calls
    /\ UNCHANGED <<file, batch_size, max_rows, fail_stage, created, pos, batch,
                   total_read, total_inserted, parse_errors, results, table>>

\* insert_hdfs_logs_batch returns Ok(()): every element of params was executed
InsertOk ==
    /\ pc \in {"flushing", "final_flushing"}
    /\ table' = table \o batch
    /\ results' = Append(results, "ok")
    /\ total_inserted' = Counted(total_inserted, batch)
    /\ IF pc = "flushing"
         THEN /\ batch' = Clear(batch)
              /\ pc' = "reading"
         ELSE /\ pc' = "done"
              /\ UNCHANGED batch
    /\ UNCHANGED <<file, batch_size, max_rows, fail_stage, created, pos,
                   total_read, parse_errors, calls>>

InsertErr_swallowed ==
    /\ pc \in {"flushing", "final_flushing"}
    /\ \E k \in 0..(Len(batch) - 1) : table' = table \o SubSeq(batch, 1, k)
    /\ results' = Append(results, "err")
    /\ pc' = IF pc = "flushing" THEN "reading" ELSE "done"
    /\ UNCHANGED <<file, batch_size, max_rows, fail_stage, created, pos, batch,
                   total_read, total_inserted, parse_errors, calls>>

InsertErr_counted ==
    /\ pc \in {"flushing", "final_flushing"}
    /\ \E k \in 0..(Len(batch) - 1) : table' = table \o SubSeq(batch, 1, k)
    /\ results' = Append(results, "err")
    /\ total_inserted' = total_inserted + Len(batch)
    /\ Fail("insert")
    /\ UNCHANGED <<file, batch_size, max_rows, created, pos, batch,
                   total_read, parse_errors, calls>>

\* conn.exec_batch(sql, params).await fails ("Error inserting batch"). The
\* statement has ONE row of placeholders and params holds one tuple per log:
\* exec_batch executes the prepared statement once per tuple, outside any
\* transaction, so when the execution of tuple k + 1 returns the error the
\* k rows executed before it stay in the table.
InsertErr ==
    /\ pc \in {"flushing", "final_flushing"}
    /\ \E k \in 0..(Len(batch) - 1) : table' = table \o SubSeq(batch, 1, k)
    /\ results' = Append(results, "err")
    /\ Fail("insert")
    /\ UNCHANGED <<file, batch_size, max_rows, created, pos, batch,
                   total_read, total_inserted, parse_errors, calls>>

Next ==
    \/ ConnectOk
    \/ ConnectErr
    \/ CreateTableOk
    \/ CreateTableErr
    \/ OpenFileOk
    \/ OpenFileErr
    \/ NextLine
    \/ EndOfInput
    \/ InsertOk
    \/ InsertErr

Spec == Init /\ [][Next]_vars

\* process_hdfs_logs is one task driven to completion by #[tokio::main]:
\* whenever a step is possible (the next statement, or the return of the
\* awaited call) one is eventually taken
FairSpec == Spec /\ WF_vars(Next)

\* ------------------------------------------------ vocabulary of the claims
\* the lines consumed so far that decode to a record / that do not
ValidLines(n) == {i \in 1..n : LogResult(file[i]) = "Ok"}

ErrLines(n) == {i \in 1..n : LogResult(file[i]) = "Err"}

RECURSIVE ValidSeq(_)
\* the valid records among the first n lines, in source line order
ValidSeq(n) ==
    IF n = 0 THEN <<>>
    ELSE IF LogResult(file[n]) = "Ok" THEN Append(ValidSeq(n - 1), n)
    ELSE ValidSeq(n - 1)

RECURSIVE Flat(_)
\* concatenation of a sequence of batches
Flat(bs) == IF bs = <<>> THEN <<>> ELSE Head(bs) \o Flat(Tail(bs))

IsPrefix(s, t) == Len(s) <= Len(t) /\ SubSeq(t, 1, Len(s)) = s

\* ceil(n / b) for b >= 1
Ceil(n, b) == (n + b - 1) \div b

\* the run returned Ok(()) from process_hdfs_logs
Done == pc = "done"

\* ------------------------------------------------------------------ claims

\* C1: for every input and every batch size B >= 1, when the run ends
\* without an infrastructure error, total_read equals the number of lines
\* consumed: the valid records plus the reported parse errors.
C1_TotalReadCountsEveryLine ==
    (Done /\ batch_size >= 1) =>
        /\ total_read = Cardinality(ValidLines(pos)) + parse_errors
        /\ total_read = pos

\* C2: for every input and every batch size B >= 1, when no insert fails,
\* at the end of the run total_inserted equals the number of valid records
\* among the consumed lines (full batches and the final partial batch).
C2_TotalInsertedIsValidCount ==
    (Done /\ batch_size >= 1) =>
        /\ pos = IterLen(file, max_rows)
        /\ total_inserted = Cardinality(ValidLines(pos))

\* C2 witness: a finished run with full batches, a final partial batch and a
\* malformed line.
C2_Witness ==
    /\ Done
    /\ batch_size = 2
    /\ Len(calls) = 2
    /\ Len(calls[2]) = 1
    /\ parse_errors >= 1
    /\ total_inserted = 3

\* C3: for every batch size B >= 1 and N valid records among the consumed
\* lines, a run without insert failure issues exactly ceil(N / B) batch
\* inserts, and every batch except possibly the last has exactly B records.
C3_BatchCount ==
    (batch_size >= 1) =>
        /\ \A i \in 1..(Len(calls) - 1) : Len(calls[i]) = batch_size
        /\ Done => Len(calls) = Ceil(Cardinality(ValidLines(pos)), batch_size)

\* C3 witness: N a positive multiple of B, malformed lines interleaved, all
\* N / B batches full and no extra batch.
C3_Witness ==
    /\ Done
    /\ batch_size = 2
    /\ Cardinality(ValidLines(pos)) = 4
    /\ parse_errors >= 1
    /\ Len(calls) = 2
    /\ \A i \in 1..2 : Len(calls[i]) = 2

\* C4: in every reachable state the concatenation of the batches handed to
\* the sink, in call order, is a prefix of the valid records in source line
\* order, and the rows of the table follow the same order.
C4_SourceOrder ==
    /\ IsPrefix(Flat(calls), ValidSeq(Len(file)))
    /\ IsPrefix(table, Flat(calls))

\* C4 witness: two batches were handed over, with a malformed line between
\* the records.
C4_Witness ==
    /\ Len(calls) >= 2
    /\ Len(calls[1]) >= 2
    /\ \E i \in 1..pos : i < calls[2][1] /\ LogResult(file[i]) = "Err"
    /\ Len(table) >= 3

\* C5: every valid record of the consumed input is handed to the sink in
\* exactly one batch: no record is in two batch inserts, and when the run
\* ends without insert failure every valid consumed line has been inserted
\* exactly once; only lines that failed to parse yield no row.
C5_ExactlyOnce ==
    /\ \A i, j \in 1..Len(Flat(calls)) :
           Flat(calls)[i] = Flat(calls)[j] => i = j
    /\ \A i \in 1..Len(Flat(calls)) : Flat(calls)[i] \in ValidLines(pos)
    /\ Done =>
         /\ {Flat(calls)[i] : i \in 1..Len(Flat(calls))} = ValidLines(pos)
         /\ table = ValidSeq(pos)
         /\ (1..pos) \ {table[i] : i \in 1..Len(table)} = ErrLines(pos)

\* C5 witness: a finished run of several batches that skipped a malformed
\* line.
C5_Witness ==
    /\ Done
    /\ Len(calls) >= 2
    /\ ErrLines(pos) # {}
    /\ Len(table) = 3
    /\ batch_size >= 1

\* some call of insert_hdfs_logs_batch has returned an error
InsertFailed == \E i \in 1..Len(results) : results[i] = "err"

RECURSIVE SumLen(_)
SumLen(bs) == IF bs = <<>> THEN 0 ELSE Len(Head(bs)) + SumLen(Tail(bs))

Rows(b) == {b[i] : i \in 1..Len(b)}

\* C6: when an insert of any batch (full or final) fails, the run stops at
\* once in failure: no further line is consumed, no further insert is
\* attempted for that or any later batch, the counters keep the value of the
\* batches confirmed before, and the run does not report completion.
C6_InsertFailureStops ==
    [][ /\ InsertFailed' =>
              /\ pc' = "failed"
              /\ fail_stage' = "insert"
              /\ Len(results') = Len(calls')
              /\ \A i \in 1..(Len(results') - 1) : results'[i] = "ok"
              /\ total_inserted' = SumLen(SubSeq(calls', 1, Len(calls') - 1))
        /\ (InsertFailed' /\ ~InsertFailed) =>
              /\ pos' = pos
              /\ calls' = calls
              /\ total_inserted' = total_inserted
        /\ InsertFailed => UNCHANGED vars
      ]_vars

\* C6 witness: the 2nd of 3 batches failed; only batch 1 is confirmed and
\* the lines of batch 3 were never consumed.
C6_Witness ==
    /\ pc = "failed"
    /\ results = <<"ok", "err">>
    /\ Len(calls) = 2
    /\ total_inserted = Len(calls[1])
    /\ \E i \in (pos + 1)..IterLen(file, max_rows) : LogResult(file[i]) = "Ok"

\* C7: a line that fails to parse is non-fatal: it is reported, adds no
\* record to any batch, leaves total_inserted alone and the run continues;
\* one valid line plus the line `not json` with a batch size above 2 gives
\* one batch of 1 record, one reported parse error, total_read = 2 and
\* total_inserted = 1.
C7_ParseErrorNonFatal ==
    /\ parse_errors = Cardinality(ErrLines(pos))
    /\ \A i \in ErrLines(pos) : i \notin Rows(Flat(calls)) /\ i \notin Rows(batch)
    /\ (Done /\ file = <<"valid", "not_json">> /\ max_rows = None
          /\ batch_size >= 2) =>
           /\ calls = << <<1>> >>
           /\ parse_errors = 1
           /\ total_read = 2
           /\ total_inserted = 1

\* C8: a batch insert is atomic: after a successful insert all records of
\* the batch are in the table, after a failed one none of them is.
C8_BatchInsertAtomic ==
    \A i \in 1..Len(results) :
        IF results[i] = "ok"
          THEN Rows(calls[i]) \subseteq Rows(table)
          ELSE Rows(calls[i]) \cap Rows(table) = {}

\* C9: for an empty input file and any batch size, no batch is emitted,
\* insert_hdfs_logs_batch is never called, total_read = total_inserted = 0
\* and the read loop ends the run successfully.
C9_EmptyInput ==
    [][ file = <<>> =>
          /\ calls' = <<>>
          /\ results' = <<>>
          /\ table' = <<>>
          /\ total_read' = 0
          /\ total_inserted' = 0
          /\ pc' \notin {"flushing", "final_flushing"}
          /\ pc = "reading" => pc' = "done"
          /\ pc' = "failed" => fail_stage' \in {"connect", "drop_table",
                                                "create_table", "open_file"}
      ]_vars

\* C9 witness: a run over the empty file has finished.
C9_Witness ==
    /\ Done
    /\ file = <<>>
    /\ calls = <<>>
    /\ total_read = 0

\* the run has ended after the read loop: Ok(()) or a failed insert
RunEnded == Done \/ (pc = "failed" /\ fail_stage = "insert")

\* C10 as stated: with a max_rows cap M smaller than the batch size B and
\* an input of at least M lines, the run produces exactly one batch, the
\* final one, holding M records.
C10_CapBelowBatch_Original ==
    (RunEnded /\ max_rows # None /\ max_rows < batch_size
       /\ Len(file) >= max_rows) =>
        /\ Len(calls) = 1
        /\ Len(calls[1]) = max_rows

\* C10 amended: with a max_rows cap M smaller than the batch size B and an
\* input of at least M lines, the run issues at most one batch insert, the
\* final one, holding exactly the valid records among the first M lines; it
\* is one batch of M records when M >= 1 and the first M lines are all valid.
C10_CapBelowBatch ==
    (RunEnded /\ max_rows # None /\ max_rows < batch_size
       /\ Len(file) >= max_rows) =>
        /\ pos = max_rows
        /\ Len(calls) <= 1
        /\ Flat(calls) = ValidSeq(max_rows)
        /\ \A i \in 1..Len(calls) : calls[i] # <<>>
        /\ (max_rows >= 1 /\ ErrLines(max_rows) = {}) =>
              /\ Len(calls) = 1
              /\ Len(calls[1]) = max_rows

\* C10 witness: the cap cut a longer, all-valid input below one batch.
C10_Witness ==
    /\ Done
    /\ max_rows = 2
    /\ batch_size = 3
    /\ Len(file) > max_rows
    /\ ErrLines(Len(file)) = {}
    /\ calls = << <<1, 2>> >>

\* C11: the max_rows cap M bounds lines consumed, not records inserted: the
\* run consumes exactly min(M, number of lines) lines, malformed lines count
\* toward the cap, the records inserted are the valid lines among the first
\* M lines, and no line beyond the M-th is ever parsed or inserted.
C11_CapBoundsLines ==
    (max_rows # None) =>
        /\ pos <= Min(max_rows, Len(file))
        /\ Cardinality(ValidLines(pos)) + parse_errors = pos
        /\ \A i \in Rows(batch) \cup Rows(Flat(calls)) \cup Rows(table) :
               i <= max_rows
        /\ Done =>
             /\ pos = Min(max_rows, Len(file))
             /\ table = ValidSeq(Min(max_rows, Len(file)))
             /\ Len(table) = max_rows - Cardinality(ErrLines(pos))
                  \/ Len(file) < max_rows

\* C11 witness: the cap cut the file after 3 lines, one of them malformed,
\* and left a valid line unread: fewer than M records were inserted.
C11_Witness ==
    /\ Done
    /\ max_rows = 3
    /\ Len(file) > 3
    /\ LogResult(file[4]) = "Ok"
    /\ ErrLines(3) # {}
    /\ Len(table) = 2

\* the steps that come before the read loop
SetupStages == {"connect", "drop_table", "create_table", "open_file"}

\* C12: a failure of connecting, of dropping or creating the table, or of
\* opening the file is fatal: the run aborts at that step, no line is read
\* and insert_hdfs_logs_batch is never called; the steps run in the order
\* connect, recreate table, open file, read/insert, so the table is
\* recreated before the first insert.
C12_SetupFailureFatal ==
    [][ /\ fail_stage' \in SetupStages =>
              /\ pc' = "failed"
              /\ pos' = 0
              /\ calls' = <<>>
              /\ table' = <<>>
        /\ fail_stage \in SetupStages => UNCHANGED vars
        /\ (pc' = "connected" /\ pc # "connected") => pc = "idle"
        /\ (pc' = "table_ready" /\ pc # "table_ready") =>
              pc = "connected" /\ created'
        /\ (pc' = "reading" /\ pc \notin {"reading", "flushing"}) =>
              pc = "table_ready"
        /\ (pos' > 0 \/ calls' # <<>>) => created'
        /\ fail_stage' = "connect" => pc = "idle"
        /\ fail_stage' \in {"drop_table", "create_table"} =>
              pc \in {"connected", "failed"} /\ ~created'
        /\ fail_stage' = "open_file" => pc \in {"table_ready", "failed"}
      ]_vars

\* C12 witness: the file could not be opened after the table was recreated;
\* its lines stay unread.
C12_Witness ==
    /\ pc = "failed"
    /\ fail_stage = "open_file"
    /\ created
    /\ Len(file) >= 2
    /\ pos = 0
    /\ calls = <<>>

RECURSIVE ConfirmedSum(_, _)
\* sum of the sizes of the batches cs whose insert returned Ok in rs
ConfirmedSum(cs, rs) ==
    IF rs = <<>> THEN 0
    ELSE (IF Head(rs) = "ok" THEN Len(Head(cs)) ELSE 0)
         + ConfirmedSum(Tail(cs), Tail(rs))

\* C13: in every reachable state, the failed one included, total_inserted
\* is the sum of the sizes of the batches the sink confirmed: it grows only
\* after a successful insert, by that batch's size, and a failed insert
\* leaves total_inserted and total_read unchanged.
C13_TotalInsertedConfirmed ==
    [][ /\ total_inserted = ConfirmedSum(calls, results)
        /\ total_inserted' = ConfirmedSum(calls', results')
        /\ total_inserted' # total_inserted =>
              /\ results' = Append(results, "ok")
              /\ total_inserted' = total_inserted + Len(calls[Len(calls)])
        /\ (InsertFailed' /\ ~InsertFailed) =>
              /\ total_inserted' = total_inserted
              /\ total_read' = total_read
      ]_vars

\* C13 witness: two batches were confirmed and the final one failed.
C13_Witness ==
    /\ pc = "failed"
    /\ results = <<"ok", "ok", "err">>
    /\ batch_size = 2
    /\ total_inserted = 4
    /\ total_read = 5

\* C14: for batch size B >= 1 the batch buffer never holds more than B
\* records, and whenever the next line is about to be read it holds fewer
\* than B: a full batch is flushed and emptied before any further read.
C14_BufferBounded ==
    (batch_size >= 1) =>
        /\ Len(batch) <= batch_size
        /\ pc = "reading" => Len(batch) < batch_size
        /\ Len(batch) = batch_size => pc \in {"flushing", "final_flushing",
                                              "done", "failed"}

\* C14 witness: a full batch of B >= 2 records was flushed and emptied, and
\* the loop is about to read a further line.
C14_Witness ==
    /\ pc = "reading"
    /\ batch_size >= 2
    /\ results = <<"ok">>
    /\ batch = <<>>
    /\ pos < IterLen(file, max_rows)

\* C15: every batch handed to insert_hdfs_logs_batch is non-empty and, for
\* batch size B >= 1, has between 1 and B records; the sink is never called
\* with an empty batch, also when the number of valid records is 0 or an
\* exact multiple of B.
C15_BatchNonEmpty ==
    \A i \in 1..Len(calls) :
        /\ Len(calls[i]) >= 1
        /\ batch_size >= 1 => Len(calls[i]) <= batch_size

\* C15 witness: a finished run whose valid records are an exact multiple of
\* B, after which no further batch was handed over.
C15_Witness ==
    /\ Done
    /\ batch_size = 2
    /\ parse_errors = 0
    /\ Len(Flat(calls)) = 4
    /\ Len(calls) = 2

\* an insert_hdfs_logs_batch call has been issued and has not returned
InFlight == Len(calls) - Len(results)

\* C16: at most one batch insert is in flight at any time, and while it is
\* outstanding no line is read or parsed and the batch buffer is not
\* modified: reading and inserting alternate in one thread of control.
C16_OneInFlight ==
    [][ /\ InFlight \in {0, 1}
        /\ InFlight' \in {0, 1}
        /\ InFlight = 1 <=> (pc \in {"flushing", "final_flushing"})
        /\ InFlight = 1 =>
              /\ pos' = pos
              /\ total_read' = total_read
              /\ parse_errors' = parse_errors
              /\ calls' = calls
              /\ InFlight' = 0
              /\ batch' = batch
                   \/ (results' = Append(results, "ok") /\ batch' = <<>>)
        /\ pos' # pos => InFlight = 0
      ]_vars

\* C16 witness: the second insert is outstanding while lines remain unread.
C16_Witness ==
    /\ pc = "flushing"
    /\ InFlight = 1
    /\ Len(calls) = 2
    /\ pos < IterLen(file, max_rows)

\* the driver's state of spec section 4.4 for a position of process_hdfs_logs
Phase(p) ==
    CASE p \in {"idle", "connected", "table_ready"} -> "Idle"
      [] p = "reading" -> "Reading"
      [] p \in {"flushing", "final_flushing"} -> "Flushing"
      [] p = "done" -> "Done"
      [] p = "failed" -> "Failed"

\* C17: the driver follows Idle -> Reading -> (Flushing, repeated) ->
\* Done | Failed: Flushing is entered only when the buffer reached capacity
\* or the input is exhausted with a non-empty buffer; it returns to Reading
\* only after the sink reported success; Failed is entered only from a
\* failed step, Done only after the input is exhausted with an empty buffer
\* or a successful final flush; Done and Failed are terminal.
C17_StateMachine ==
    [][ /\ <<Phase(pc), Phase(pc')>> \in
              {<<"Idle", "Idle">>, <<"Idle", "Reading">>, <<"Idle", "Failed">>,
               <<"Reading", "Reading">>, <<"Reading", "Flushing">>,
               <<"Reading", "Done">>, <<"Flushing", "Reading">>,
               <<"Flushing", "Done">>, <<"Flushing", "Failed">>}
        /\ Phase(pc') = "Flushing" =>
              /\ Phase(pc) = "Reading"
              /\ calls' = Append(calls, batch')
              /\ batch' # <<>>
              /\ \/ pos' = pos + 1 /\ Len(batch') >= batch_size
                 \/ pos >= IterLen(file, max_rows) /\ batch' = batch
        /\ (Phase(pc) = "Flushing" /\ Phase(pc') = "Reading") =>
              results' = Append(results, "ok")
        /\ Phase(pc') = "Failed" =>
              /\ fail_stage' # "none"
              /\ Phase(pc) = "Flushing" =>
                    results' = Append(results, "err") /\ fail_stage' = "insert"
              /\ Phase(pc) = "Idle" => fail_stage' \in SetupStages
        /\ Phase(pc') = "Done" =>
              /\ pos >= IterLen(file, max_rows)
              /\ \/ Phase(pc) = "Reading" /\ batch = <<>>
                 \/ pc = "final_flushing" /\ results' = Append(results, "ok")
        /\ Phase(pc) \in {"Done", "Failed"} => UNCHANGED vars
      ]_vars

\* C17 witness: a run went through two full flushes and a successful final
\* flush of a short batch.
C17_Witness ==
    /\ Done
    /\ results = <<"ok", "ok", "ok">>
    /\ batch_size = 2
    /\ Len(batch) = 1

Terminated == pc \in {"done", "failed"}

\* C18: for every finite input and batch size B >= 1, provided each insert
\* call returns, the run eventually ends in Done or Failed; a run that
\* entered the read loop ends in Done exactly when the input is exhausted,
\* every insert succeeded and a non-empty final batch was flushed.
C18_Terminates ==
    /\ <>Terminated
    /\ []((Terminated /\ fail_stage \notin SetupStages /\ batch_size >= 1) =>
            (Done <=> /\ pos = IterLen(file, max_rows)
                      /\ Len(results) = Len(calls)
                      /\ \A i \in 1..Len(results) : results[i] = "ok"
                      /\ Flat(calls) = ValidSeq(pos)))

\* C18 witness: a run with a final partial batch has ended in Done.
C18_Witness ==
    /\ Done
    /\ batch_size = 3
    /\ Len(calls) = 2
    /\ Len(calls[2]) = 2
    /\ pos = Len(file)

\* the batches a run with capacity 1 has handed over after n lines: one
\* one-record batch per valid line
OnePerRecord(n) == [i \in 1..Len(ValidSeq(n)) |-> <<ValidSeq(n)[i]>>]

\* C19: the batch size is not validated: a run with batch size 0 is
\* accepted and behaves exactly like a run with batch size 1: every valid
\* record is pushed and flushed at once as its own one-record batch, so the
\* buffer momentarily holds 1 record (more than the capacity 0), the buffer
\* is empty at end of input, and no empty batch is ever inserted.
C19_ZeroBatchSize ==
    (batch_size \in {0, 1}) =>
        /\ calls = OnePerRecord(pos)
        /\ pc # "final_flushing"
        /\ batch = IF pc = "flushing" \/ (pc = "failed" /\ fail_stage = "insert")
                     THEN calls[Len(calls)]
                     ELSE <<>>
        /\ pc = "flushing" => Len(batch) = 1 /\ batch = <<pos>>
        /\ (pc = "reading" /\ pos >= IterLen(file, max_rows)) => batch = <<>>
        /\ total_read = Len(calls)
        /\ total_inserted = Len(table)
        /\ Done => table = ValidSeq(IterLen(file, max_rows))

\* C19 witness: a run with batch size 0 has finished after flushing each of
\* its records as a batch of its own, a malformed line among them.
C19_Witness ==
    /\ Done
    /\ batch_size = 0
    /\ Len(calls) >= 3
    /\ \A i \in 1..Len(calls) : Len(calls[i]) = 1
    /\ parse_errors >= 1
    /\ batch = <<>>

=============================================================================
